---- MODULE Spec2Model ----
(***************************************************************************)
(* Standardisation of Italian province / region / macro-area labels.       *)
(*                                                                         *)
(* A text is a sequence of Unicode code points (Python str); the model     *)
(* covers the Latin-1 range plus the typographic apostrophe and dashes the *)
(* normaliser names.  A Python dict is the sequence of its <<key, value>>  *)
(* items in insertion order.  None is the tuple <<-1>>, which is no text.  *)
(***************************************************************************)
EXTENDS Integers, Sequences, FiniteSets, TLC

VARIABLES
  relisted,    \* the one listing an author added to the reference tables, if any
  owner_kept,  \* the owner the derived dict holds for the relisted member
  loaded,      \* TRUE once aliases_helper has been imported
  pc,          \* "idle" | "returned": position of the caller of standardize_territory
  raw,         \* the argument of the call in progress
  tok,         \* the local tok of that call (line 101)
  result,      \* the dict the call returned
  ret          \* the source line of the return statement that produced it

vars == <<relisted, owner_kept, loaded, pc, raw, tok, result, ret>>

None == <<-1>>

\* ---- Canonical lists (aliases_helper.py) ----
REGIONS ==
  <<
    <<65,98,114,117,122,122,111>>,  \* 'Abruzzo'
    <<66,97,115,105,108,105,99,97,116,97>>,  \* 'Basilicata'
    <<67,97,108,97,98,114,105,97>>,  \* 'Calabria'
    <<67,97,109,112,97,110,105,97>>,  \* 'Campania'
    <<69,109,105,108,105,97,45,82,111,109,97,103,110,97>>,  \* 'Emilia-Romagna'
    <<70,114,105,117,108,105,45,86,101,110,101,122,105,97,32,71,105,117,108,105,97>>,  \* 'Friuli-Venezia Giulia'
    <<76,97,122,105,111>>,  \* 'Lazio'
    <<76,105,103,117,114,105,97>>,  \* 'Liguria'
    <<76,111,109,98,97,114,100,105,97>>,  \* 'Lombardia'
    <<77,97,114,99,104,101>>,  \* 'Marche'
    <<77,111,108,105,115,101>>,  \* 'Molise'
    <<80,105,101,109,111,110,116,101>>,  \* 'Piemonte'
    <<80,117,103,108,105,97>>,  \* 'Puglia'
    <<83,97,114,100,101,103,110,97>>,  \* 'Sardegna'
    <<83,105,99,105,108,105,97>>,  \* 'Sicilia'
    <<84,111,115,99,97,110,97>>,  \* 'Toscana'
    <<84,114,101,110,116,105,110,111,45,65,108,116,111,32,65,100,105,103,101,47,83,252,100,116,105,114,111,108>>,  \* 'Trentino-Alto Adige/S\xfcdtirol'
    <<85,109,98,114,105,97>>,  \* 'Umbria'
    <<86,97,108,108,101,32,100,39,65,111,115,116,97,47,86,97,108,108,233,101,32,100,39,65,111,115,116,101>>,  \* "Valle d'Aosta/Vall\xe9e d'Aoste"
    <<86,101,110,101,116,111>>  \* 'Veneto'
  >>

\* Region -> Provinces: a dict literal, kept as its <<key, value>> items in
\* insertion order.
REGION_TO_PROVINCES ==
  <<
    << <<65,98,114,117,122,122,111>>,  \* 'Abruzzo'
       <<
         <<76,39,65,113,117,105,108,97>>,  \* "L'Aquila"
         <<84,101,114,97,109,111>>,  \* 'Teramo'
         <<80,101,115,99,97,114,97>>,  \* 'Pescara'
         <<67,104,105,101,116,105>>  \* 'Chieti'
       >> >>,
    << <<66,97,115,105,108,105,99,97,116,97>>,  \* 'Basilicata'
       <<
         <<80,111,116,101,110,122,97>>,  \* 'Potenza'
         <<77,97,116,101,114,97>>  \* 'Matera'
       >> >>,
    << <<67,97,108,97,98,114,105,97>>,  \* 'Calabria'
       <<
         <<67,97,116,97,110,122,97,114,111>>,  \* 'Catanzaro'
         <<67,111,115,101,110,122,97>>,  \* 'Cosenza'
         <<67,114,111,116,111,110,101>>,  \* 'Crotone'
         <<82,101,103,103,105,111,32,67,97,108,97,98,114,105,97>>,  \* 'Reggio Calabria'
         <<86,105,98,111,32,86,97,108,101,110,116,105,97>>  \* 'Vibo Valentia'
       >> >>,
    << <<67,97,109,112,97,110,105,97>>,  \* 'Campania'
       <<
         <<65,118,101,108,108,105,110,111>>,  \* 'Avellino'
         <<66,101,110,101,118,101,110,116,111>>,  \* 'Benevento'
         <<67,97,115,101,114,116,97>>,  \* 'Caserta'
         <<78,97,112,111,108,105>>,  \* 'Napoli'
         <<83,97,108,101,114,110,111>>  \* 'Salerno'
       >> >>,
    << <<69,109,105,108,105,97,45,82,111,109,97,103,110,97>>,  \* 'Emilia-Romagna'
       <<
         <<66,111,108,111,103,110,97>>,  \* 'Bologna'
         <<70,101,114,114,97,114,97>>,  \* 'Ferrara'
         <<70,111,114,108,236,45,67,101,115,101,110,97>>,  \* 'Forl\xec-Cesena'
         <<77,111,100,101,110,97>>,  \* 'Modena'
         <<80,97,114,109,97>>,  \* 'Parma'
         <<80,105,97,99,101,110,122,97>>,  \* 'Piacenza'
         <<82,97,118,101,110,110,97>>,  \* 'Ravenna'
         <<82,101,103,103,105,111,32,110,101,108,108,39,69,109,105,108,105,97>>,  \* "Reggio nell'Emilia"
         <<82,105,109,105,110,105>>  \* 'Rimini'
       >> >>,
    << <<70,114,105,117,108,105,45,86,101,110,101,122,105,97,32,71,105,117,108,105,97>>,  \* 'Friuli-Venezia Giulia'
       <<
         <<71,111,114,105,122,105,97>>,  \* 'Gorizia'
         <<80,111,114,100,101,110,111,110,101>>,  \* 'Pordenone'
         <<84,114,105,101,115,116,101>>,  \* 'Trieste'
         <<85,100,105,110,101>>  \* 'Udine'
       >> >>,
    << <<76,97,122,105,111>>,  \* 'Lazio'
       <<
         <<70,114,111,115,105,110,111,110,101>>,  \* 'Frosinone'
         <<76,97,116,105,110,97>>,  \* 'Latina'
         <<82,105,101,116,105>>,  \* 'Rieti'
         <<82,111,109,97>>,  \* 'Roma'
         <<86,105,116,101,114,98,111>>  \* 'Viterbo'
       >> >>,
    << <<76,105,103,117,114,105,97>>,  \* 'Liguria'
       <<
         <<71,101,110,111,118,97>>,  \* 'Genova'
         <<73,109,112,101,114,105,97>>,  \* 'Imperia'
         <<76,97,32,83,112,101,122,105,97>>,  \* 'La Spezia'
         <<83,97,118,111,110,97>>  \* 'Savona'
       >> >>,
    << <<76,111,109,98,97,114,100,105,97>>,  \* 'Lombardia'
       <<
         <<66,101,114,103,97,109,111>>,  \* 'Bergamo'
         <<66,114,101,115,99,105,97>>,  \* 'Brescia'
         <<67,111,109,111>>,  \* 'Como'
         <<67,114,101,109,111,110,97>>,  \* 'Cremona'
         <<76,101,99,99,111>>,  \* 'Lecco'
         <<76,111,100,105>>,  \* 'Lodi'
         <<77,97,110,116,111,118,97>>,  \* 'Mantova'
         <<77,105,108,97,110,111>>,  \* 'Milano'
         <<77,111,110,122,97,32,101,32,100,101,108,108,97,32,66,114,105,97,110,122,97>>,  \* 'Monza e della Brianza'
         <<80,97,118,105,97>>,  \* 'Pavia'
         <<83,111,110,100,114,105,111>>,  \* 'Sondrio'
         <<86,97,114,101,115,101>>  \* 'Varese'
       >> >>,
    << <<77,97,114,99,104,101>>,  \* 'Marche'
       <<
         <<65,110,99,111,110,97>>,  \* 'Ancona'
         <<65,115,99,111,108,105,32,80,105,99,101,110,111>>,  \* 'Ascoli Piceno'
         <<70,101,114,109,111>>,  \* 'Fermo'
         <<77,97,99,101,114,97,116,97>>,  \* 'Macerata'
         <<80,101,115,97,114,111,32,101,32,85,114,98,105,110,111>>  \* 'Pesaro e Urbino'
       >> >>,
    << <<77,111,108,105,115,101>>,  \* 'Molise'
       <<
         <<67,97,109,112,111,98,97,115,115,111>>,  \* 'Campobasso'
         <<73,115,101,114,110,105,97>>  \* 'Isernia'
       >> >>,
    << <<80,105,101,109,111,110,116,101>>,  \* 'Piemonte'
       <<
         <<65,108,101,115,115,97,110,100,114,105,97>>,  \* 'Alessandria'
         <<65,115,116,105>>,  \* 'Asti'
         <<66,105,101,108,108,97>>,  \* 'Biella'
         <<67,117,110,101,111>>,  \* 'Cuneo'
         <<78,111,118,97,114,97>>,  \* 'Novara'
         <<84,111,114,105,110,111>>,  \* 'Torino'
         <<86,101,114,98,97,110,111,45,67,117,115,105,111,45,79,115,115,111,108,97>>,  \* 'Verbano-Cusio-Ossola'
         <<86,101,114,99,101,108,108,105>>  \* 'Vercelli'
       >> >>,
    << <<80,117,103,108,105,97>>,  \* 'Puglia'
       <<
         <<66,97,114,105>>,  \* 'Bari'
         <<66,97,114,108,101,116,116,97,45,65,110,100,114,105,97,45,84,114,97,110,105>>,  \* 'Barletta-Andria-Trani'
         <<66,114,105,110,100,105,115,105>>,  \* 'Brindisi'
         <<70,111,103,103,105,97>>,  \* 'Foggia'
         <<76,101,99,99,101>>,  \* 'Lecce'
         <<84,97,114,97,110,116,111>>  \* 'Taranto'
       >> >>,
    << <<83,97,114,100,101,103,110,97>>,  \* 'Sardegna'
       <<
         <<67,97,103,108,105,97,114,105>>,  \* 'Cagliari'
         <<78,117,111,114,111>>,  \* 'Nuoro'
         <<79,114,105,115,116,97,110,111>>,  \* 'Oristano'
         <<83,97,115,115,97,114,105>>,  \* 'Sassari'
         <<83,117,100,32,83,97,114,100,101,103,110,97>>  \* 'Sud Sardegna'
       >> >>,
    << <<83,105,99,105,108,105,97>>,  \* 'Sicilia'
       <<
         <<65,103,114,105,103,101,110,116,111>>,  \* 'Agrigento'
         <<67,97,108,116,97,110,105,115,115,101,116,116,97>>,  \* 'Caltanissetta'
         <<67,97,116,97,110,105,97>>,  \* 'Catania'
         <<69,110,110,97>>,  \* 'Enna'
         <<77,101,115,115,105,110,97>>,  \* 'Messina'
         <<80,97,108,101,114,109,111>>,  \* 'Palermo'
         <<82,97,103,117,115,97>>,  \* 'Ragusa'
         <<83,105,114,97,99,117,115,97>>,  \* 'Siracusa'
         <<84,114,97,112,97,110,105>>  \* 'Trapani'
       >> >>,
    << <<84,111,115,99,97,110,97>>,  \* 'Toscana'
       <<
         <<65,114,101,122,122,111>>,  \* 'Arezzo'
         <<70,105,114,101,110,122,101>>,  \* 'Firenze'
         <<71,114,111,115,115,101,116,111>>,  \* 'Grosseto'
         <<76,105,118,111,114,110,111>>,  \* 'Livorno'
         <<76,117,99,99,97>>,  \* 'Lucca'
         <<77,97,115,115,97,45,67,97,114,114,97,114,97>>,  \* 'Massa-Carrara'
         <<80,105,115,97>>,  \* 'Pisa'
         <<80,105,115,116,111,105,97>>,  \* 'Pistoia'
         <<80,114,97,116,111>>,  \* 'Prato'
         <<83,105,101,110,97>>  \* 'Siena'
       >> >>,
    << <<84,114,101,110,116,105,110,111,45,65,108,116,111,32,65,100,105,103,101,47,83,252,100,116,105,114,111,108>>,  \* 'Trentino-Alto Adige/S\xfcdtirol'
       <<
         <<66,111,108,122,97,110,111,47,66,111,122,101,110>>,  \* 'Bolzano/Bozen'
         <<84,114,101,110,116,111>>  \* 'Trento'
       >> >>,
    << <<85,109,98,114,105,97>>,  \* 'Umbria'
       <<
         <<80,101,114,117,103,105,97>>,  \* 'Perugia'
         <<84,101,114,110,105>>  \* 'Terni'
       >> >>,
    << <<86,97,108,108,101,32,100,39,65,111,115,116,97,47,86,97,108,108,233,101,32,100,39,65,111,115,116,101>>,  \* "Valle d'Aosta/Vall\xe9e d'Aoste"
       <<
         <<65,111,115,116,97>>  \* 'Aosta'
       >> >>,
    << <<86,101,110,101,116,111>>,  \* 'Veneto'
       <<
         <<66,101,108,108,117,110,111>>,  \* 'Belluno'
         <<80,97,100,111,118,97>>,  \* 'Padova'
         <<82,111,118,105,103,111>>,  \* 'Rovigo'
         <<84,114,101,118,105,115,111>>,  \* 'Treviso'
         <<86,101,110,101,122,105,97>>,  \* 'Venezia'
         <<86,101,114,111,110,97>>,  \* 'Verona'
         <<86,105,99,101,110,122,97>>  \* 'Vicenza'
       >> >>
  >>

\* ISTAT macro-areas: macro -> regions, items in insertion order.
MACRO_TO_REGIONS ==
  <<
    << <<78,111,114,100,45,111,118,101,115,116>>,  \* 'Nord-ovest'
       <<
         <<80,105,101,109,111,110,116,101>>,  \* 'Piemonte'
         <<86,97,108,108,101,32,100,39,65,111,115,116,97,47,86,97,108,108,233,101,32,100,39,65,111,115,116,101>>,  \* "Valle d'Aosta/Vall\xe9e d'Aoste"
         <<76,105,103,117,114,105,97>>,  \* 'Liguria'
         <<76,111,109,98,97,114,100,105,97>>  \* 'Lombardia'
       >> >>,
    << <<78,111,114,100,45,101,115,116>>,  \* 'Nord-est'
       <<
         <<84,114,101,110,116,105,110,111,45,65,108,116,111,32,65,100,105,103,101,47,83,252,100,116,105,114,111,108>>,  \* 'Trentino-Alto Adige/S\xfcdtirol'
         <<86,101,110,101,116,111>>,  \* 'Veneto'
         <<70,114,105,117,108,105,45,86,101,110,101,122,105,97,32,71,105,117,108,105,97>>,  \* 'Friuli-Venezia Giulia'
         <<69,109,105,108,105,97,45,82,111,109,97,103,110,97>>  \* 'Emilia-Romagna'
       >> >>,
    << <<67,101,110,116,114,111>>,  \* 'Centro'
       <<
         <<84,111,115,99,97,110,97>>,  \* 'Toscana'
         <<85,109,98,114,105,97>>,  \* 'Umbria'
         <<77,97,114,99,104,101>>,  \* 'Marche'
         <<76,97,122,105,111>>  \* 'Lazio'
       >> >>,
    << <<83,117,100>>,  \* 'Sud'
       <<
         <<65,98,114,117,122,122,111>>,  \* 'Abruzzo'
         <<77,111,108,105,115,101>>,  \* 'Molise'
         <<67,97,109,112,97,110,105,97>>,  \* 'Campania'
         <<80,117,103,108,105,97>>,  \* 'Puglia'
         <<66,97,115,105,108,105,99,97,116,97>>,  \* 'Basilicata'
         <<67,97,108,97,98,114,105,97>>  \* 'Calabria'
       >> >>,
    << <<73,115,111,108,101>>,  \* 'Isole'
       <<
         <<83,105,99,105,108,105,97>>,  \* 'Sicilia'
         <<83,97,114,100,101,103,110,97>>  \* 'Sardegna'
       >> >>
  >>

\* Metro cities (a set literal).
METRO_CITIES ==
  {
    <<84,111,114,105,110,111>>,  \* 'Torino'
    <<77,105,108,97,110,111>>,  \* 'Milano'
    <<86,101,110,101,122,105,97>>,  \* 'Venezia'
    <<71,101,110,111,118,97>>,  \* 'Genova'
    <<66,111,108,111,103,110,97>>,  \* 'Bologna'
    <<70,105,114,101,110,122,101>>,  \* 'Firenze'
    <<82,111,109,97>>,  \* 'Roma'
    <<78,97,112,111,108,105>>,  \* 'Napoli'
    <<66,97,114,105>>,  \* 'Bari'
    <<82,101,103,103,105,111,32,67,97,108,97,98,114,105,97>>,  \* 'Reggio Calabria'
    <<67,97,103,108,105,97,114,105>>,  \* 'Cagliari'
    <<67,97,116,97,110,105,97>>,  \* 'Catania'
    <<77,101,115,115,105,110,97>>,  \* 'Messina'
    <<80,97,108,101,114,109,111>>  \* 'Palermo'
  }

\* Manual alias groups, the items under the heading Provinces.
PROVINCE_ALIAS_GROUPS ==
  <<
    << <<82,101,103,103,105,111,32,110,101,108,108,39,69,109,105,108,105,97>>,  \* "Reggio nell'Emilia"
       <<
         <<114,101,103,103,105,111,32,101,109,105,108,105,97>>  \* 'reggio emilia'
       >> >>,
    << <<82,101,103,103,105,111,32,67,97,108,97,98,114,105,97>>,  \* 'Reggio Calabria'
       <<
         <<114,101,103,103,105,111,32,100,105,32,99,97,108,97,98,114,105,97>>  \* 'reggio di calabria'
       >> >>,
    << <<70,111,114,108,236,45,67,101,115,101,110,97>>,  \* 'Forl\xec-Cesena'
       <<
         <<102,111,114,108,105,32,99,101,115,101,110,97>>,  \* 'forli cesena'
         <<102,111,114,108,105,45,99,101,115,101,110,97>>,  \* 'forli-cesena'
         <<102,111,114,108,236,32,99,101,115,101,110,97>>  \* 'forl\xec cesena'
       >> >>,
    << <<76,97,32,83,112,101,122,105,97>>,  \* 'La Spezia'
       <<
         <<115,112,101,122,105,97>>  \* 'spezia'
       >> >>,
    << <<77,97,115,115,97,45,67,97,114,114,97,114,97>>,  \* 'Massa-Carrara'
       <<
         <<109,97,115,115,97,32,99,97,114,114,97,114,97>>,  \* 'massa carrara'
         <<109,97,115,115,97,45,99,97,114,114,97,114,97>>  \* 'massa-carrara'
       >> >>,
    << <<77,111,110,122,97,32,101,32,100,101,108,108,97,32,66,114,105,97,110,122,97>>,  \* 'Monza e della Brianza'
       <<
         <<109,111,110,122,97,32,101,32,98,114,105,97,110,122,97>>,  \* 'monza e brianza'
         <<109,111,110,122,97,32,98,114,105,97,110,122,97>>  \* 'monza brianza'
       >> >>,
    << <<66,111,108,122,97,110,111,47,66,111,122,101,110>>,  \* 'Bolzano/Bozen'
       <<
         <<98,111,108,122,97,110,111>>,  \* 'bolzano'
         <<98,111,122,101,110>>,  \* 'bozen'
         <<98,111,108,122,97,110,111,45,98,111,122,101,110>>,  \* 'bolzano-bozen'
         <<98,111,122,101,110,45,98,111,108,122,97,110,111>>  \* 'bozen-bolzano'
       >> >>,
    << <<66,97,114,108,101,116,116,97,45,65,110,100,114,105,97,45,84,114,97,110,105>>,  \* 'Barletta-Andria-Trani'
       <<
         <<98,97,114,108,101,116,116,97,32,97,110,100,114,105,97,32,116,114,97,110,105>>,  \* 'barletta andria trani'
         <<98,97,116>>,  \* 'bat'
         <<98,46,97,46,116,46>>  \* 'b.a.t.'
       >> >>,
    << <<80,101,115,97,114,111,32,101,32,85,114,98,105,110,111>>,  \* 'Pesaro e Urbino'
       <<
         <<112,101,115,97,114,111,32,117,114,98,105,110,111>>  \* 'pesaro urbino'
       >> >>,
    << <<86,97,108,108,101,32,100,39,65,111,115,116,97,47,86,97,108,108,233,101,32,100,39,65,111,115,116,101>>,  \* "Valle d'Aosta/Vall\xe9e d'Aoste"
       <<
         <<118,97,108,108,101,32,100,32,97,111,115,116,97>>,  \* 'valle d aosta'
         <<118,97,108,108,101,32,100,39,97,111,115,116,97>>,  \* "valle d'aosta"
         <<118,97,108,108,101,32,100,8217,97,111,115,116,97>>,  \* 'valle d\u2019aosta'
         <<118,97,108,108,101,101,32,100,97,111,115,116,101>>  \* 'vallee daoste'
       >> >>
  >>

\* Manual alias groups, the items under the heading Regions.
REGION_ALIAS_GROUPS ==
  <<
    << <<70,114,105,117,108,105,45,86,101,110,101,122,105,97,32,71,105,117,108,105,97>>,  \* 'Friuli-Venezia Giulia'
       <<
         <<102,114,105,117,108,105,32,118,101,110,101,122,105,97,32,103,105,117,108,105,97>>  \* 'friuli venezia giulia'
       >> >>,
    << <<84,114,101,110,116,105,110,111,45,65,108,116,111,32,65,100,105,103,101,47,83,252,100,116,105,114,111,108>>,  \* 'Trentino-Alto Adige/S\xfcdtirol'
       <<
         <<116,114,101,110,116,105,110,111,32,97,108,116,111,32,97,100,105,103,101>>,  \* 'trentino alto adige'
         <<116,114,101,110,116,105,110,111,45,97,108,116,111,32,97,100,105,103,101>>  \* 'trentino-alto adige'
       >> >>
  >>


\* Literals of standardize_territory's last-resort heuristic.
AOSTA == <<97,111,115,116,97>>  \* 'aosta'
VALLE_D_AOSTA ==
  <<86,97,108,108,101,32,100,39,65,111,115,116,97,47,86,97,108,108,233,101,32,100,39,65,111,115,116,101>>  \* "Valle d'Aosta/Vall\xe9e d'Aoste"
NORD_OVEST == <<78,111,114,100,45,111,118,101,115,116>>  \* 'Nord-ovest'

\* Faulty variant of CANONICAL_TO_ALIASES: the region's group also lists the bare
\* 'aosta', the canonical key of the province Aosta.
CANONICAL_TO_ALIASES_aosta_in_region_group ==
  PROVINCE_ALIAS_GROUPS \o REGION_ALIAS_GROUPS \o << <<VALLE_D_AOSTA, <<AOSTA>> >> >>

\* Faulty variant of CANONICAL_TO_ALIASES: a region group lists 'trento', the
\* canonical key of the province Trento.
CANONICAL_TO_ALIASES_trento_in_region_group ==
  PROVINCE_ALIAS_GROUPS \o REGION_ALIAS_GROUPS
    \o << << REGION_ALIAS_GROUPS[2][1], << <<116,114,101,110,116,111>> >> >> >>  \* 'trento'

\* Manual alias groups: canonical -> variants, items in insertion order.
CANONICAL_TO_ALIASES == PROVINCE_ALIAS_GROUPS \o REGION_ALIAS_GROUPS

\* ---------- Python dict and sequence primitives ----------

\* f itself, as a table of its values: each value is computed once, not at every
\* application
Tabulated(f) == f @@ <<>>

SetMin(S) == CHOOSE x \in S : \A y \in S : x <= y
SetMax(S) == CHOOSE x \in S : \A y \in S : x >= y

\* position of key k among the items of d, 0 when absent (keys are unique)
dict_index(d, k) ==
  LET pick(hits) == IF hits = {} THEN 0 ELSE CHOOSE i \in hits : TRUE
  IN  pick({i \in 1..Len(d) : d[i][1] = k})

dict_has(d, k) == dict_index(d, k) > 0
dict_get(d, k) == d[dict_index(d, k)][2]
dict_keys(d)   == [i \in 1..Len(d) |-> d[i][1]]

\* The dict left by the assignments d[k] = v of asg, a sequence of <<k, v>>,
\* made in order on an empty dict: a key stands where it was first set and
\* holds the value it was last set to.
dict_from(asg) ==
  LET last(k) == SetMax({j \in 1..Len(asg) : asg[j][1] = k})
      items(first, pos) ==
        [m \in 1..Cardinality(first) |->
           LET item(i) == <<asg[i][1], asg[last(asg[i][1])][2]>>
           IN  item(CHOOSE i \in first : pos[i] = m)]
      ordered(first) ==
        items(first, Tabulated([i \in first |-> Cardinality({j \in first : j <= i})]))
      entries(first) == SubSeq(ordered(first), 1, Cardinality(first))
  IN  entries({i \in 1..Len(asg) : \A j \in 1..(i - 1) : asg[j][1] # asg[i][1]})

RECURSIVE Concat(_, _)
\* the concatenation of the sequences ss[i..]
Concat(ss, i) == IF i > Len(ss) THEN <<>> ELSE ss[i] \o Concat(ss, i + 1)

SeqToSet(s) == {s[i] : i \in 1..Len(s)}

RECURSIVE str_less_from(_, _, _)
\* Python's s < t on str: lexicographic by code point
str_less_from(s, t, i) ==
  IF i > Len(t) THEN FALSE
  ELSE IF i > Len(s) THEN TRUE
  ELSE IF s[i] # t[i] THEN s[i] < t[i]
  ELSE str_less_from(s, t, i + 1)

str_less(s, t) == str_less_from(s, t, 1)

\* sorted(S) of a set of texts
sorted(S) ==
  LET by(rank) == [i \in 1..Cardinality(S) |-> CHOOSE x \in S : rank[x] = i - 1]
  IN  SubSeq(by(Tabulated([x \in S |-> Cardinality({y \in S : str_less(y, x)})])),
             1, Cardinality(S))

\* ---------- Normalization helpers ----------

\* str.isspace(), which is also the class \s of re on str
WHITESPACE ==
  {9, 10, 11, 12, 13, 28, 29, 30, 31, 32, 133, 160, 5760} \cup (8192..8202)
    \cup {8232, 8233, 8239, 8287, 12288}

\* str.lower() on one character of the Latin-1 range
lower_char(c) ==
  IF (c >= 65 /\ c <= 90) \/ (c >= 192 /\ c <= 222 /\ c # 215) THEN c + 32 ELSE c

lower(s) == [i \in 1..Len(s) |-> lower_char(s[i])]

\* str.strip()
strip(s) ==
  LET cut(idx) == IF idx = {} THEN <<>> ELSE SubSeq(s, SetMin(idx), SetMax(idx))
  IN  cut({i \in 1..Len(s) : s[i] \notin WHITESPACE})

\* NFKD decomposition of one character with its combining marks dropped
nfkd_base(c) ==
  CASE c \in {160, 168, 175, 180, 184} -> <<32>>
    [] c = 170 -> <<97>>
    [] c = 178 -> <<50>>
    [] c = 179 -> <<51>>
    [] c = 181 -> <<956>>
    [] c = 185 -> <<49>>
    [] c = 186 -> <<111>>
    [] c = 188 -> <<49, 8260, 52>>
    [] c = 189 -> <<49, 8260, 50>>
    [] c = 190 -> <<51, 8260, 52>>
    [] c \in 192..197 -> <<65>>
    [] c = 199 -> <<67>>
    [] c \in 200..203 -> <<69>>
    [] c \in 204..207 -> <<73>>
    [] c = 209 -> <<78>>
    [] c \in 210..214 -> <<79>>
    [] c \in 217..220 -> <<85>>
    [] c = 221 -> <<89>>
    [] c \in 224..229 -> <<97>>
    [] c = 231 -> <<99>>
    [] c \in 232..235 -> <<101>>
    [] c \in 236..239 -> <<105>>
    [] c = 241 -> <<110>>
    [] c \in 242..246 -> <<111>>
    [] c \in 249..252 -> <<117>>
    [] c \in {253, 255} -> <<121>>
    [] OTHER -> <<c>>

strip_accents(s) == Concat([i \in 1..Len(s) |-> nfkd_base(s[i])], 1)

\* re.sub(r"[class]", " ", s)
sub_class(s, class) == [i \in 1..Len(s) |-> IF s[i] \in class THEN 32 ELSE s[i]]

APOSTROPHES == {8217, 39, 96}
DASHES      == {45, 8211, 8212}

RECURSIVE collapse_from(_, _)
\* re.sub(r"\s+", " ", s): every maximal run of whitespace becomes one space
collapse_from(s, i) ==
  IF i > Len(s) THEN <<>>
  ELSE IF s[i] \notin WHITESPACE THEN <<s[i]>> \o collapse_from(s, i + 1)
  ELSE IF i > 1 /\ s[i - 1] \in WHITESPACE THEN collapse_from(s, i + 1)
  ELSE <<32>> \o collapse_from(s, i + 1)

collapse_spaces(s) == collapse_from(s, 1)

\* the alternatives of the prefix pattern, in the order the pattern lists them
LEGAL_PREFIXES ==
  <<
    <<112,114,111,118,105,110,99,105,97,32,100,105>>,  \* 'provincia di'
    <<112,114,111,118,32,100,105>>,  \* 'prov di'
    <<99,105,116,116,97,32,109,101,116,114,111,112,111,108,105,116,97,110,97,32,100,105>>  \* 'citta metropolitana di'
  >>

starts_with(s, p) == Len(s) >= Len(p) /\ SubSeq(s, 1, Len(p)) = p

\* the end of the match of  ^p\s+  in s, 0 when it does not match
prefix_match_end(s, p) ==
  LET run_end(stop) == IF stop = {} THEN Len(s) ELSE SetMin(stop) - 1
  IN  IF starts_with(s, p) /\ Len(s) > Len(p) /\ s[Len(p) + 1] \in WHITESPACE
      THEN run_end({i \in (Len(p) + 1)..Len(s) : s[i] \notin WHITESPACE})
      ELSE 0

\* re.sub(r"^(provincia di|prov di|citta metropolitana di)\s+", "", s)
strip_prefix(s) ==
  LET cut(hits) ==
        IF hits = {} THEN s
        ELSE SubSeq(s, prefix_match_end(s, LEGAL_PREFIXES[SetMin(hits)]) + 1, Len(s))
  IN  cut({k \in 1..Len(LEGAL_PREFIXES) : prefix_match_end(s, LEGAL_PREFIXES[k]) > 0})

base_normalize(s) ==
  strip(strip_prefix(collapse_spaces(
    sub_class(sub_class(strip_accents(strip(lower(s))), APOSTROPHES), DASHES))))

\* ---------- difflib.SequenceMatcher, without junk ----------

RECURSIVE run_length(_, _, _, _, _, _)
\* length of the common run of a[i..ahi-1] and b[j..bhi-1] starting at i and j
run_length(a, i, ahi, b, j, bhi) ==
  IF i >= ahi \/ j >= bhi \/ a[i] # b[j] THEN 0
  ELSE 1 + run_length(a, i + 1, ahi, b, j + 1, bhi)

\* find_longest_match: <<i, j, k>> with a[i..i+k-1] = b[j..j+k-1], k maximal,
\* then i minimal, then j minimal; <<alo, blo, 0>> when nothing matches.
\* Ranges are alo..ahi-1 and blo..bhi-1.
find_longest_match(a, alo, ahi, b, blo, bhi) ==
  LET earliest_b(best, i, k) == <<i, SetMin({p[2] : p \in {q \in best : q[1] = i}}), k>>
      earliest_a(best, k) == earliest_b(best, SetMin({p[1] : p \in best}), k)
      longest(runs, k) == earliest_a({<<r[1], r[2]>> : r \in {q \in runs : q[3] = k}}, k)
      among(runs) ==
        IF runs = {} THEN <<alo, blo, 0>>
        ELSE longest(runs, SetMax({r[3] : r \in runs}))
  IN  among({<<p[1], p[2], run_length(a, p[1], ahi, b, p[2], bhi)>> :
               p \in {q \in (alo..(ahi - 1)) \X (blo..(bhi - 1)) : a[q[1]] = b[q[2]]}})

RECURSIVE matching_size(_, _, _, _, _, _)
\* the total size of get_matching_blocks() within the two ranges
matching_size(a, alo, ahi, b, blo, bhi) ==
  LET around(m) ==
        IF m[3] = 0 THEN 0
        ELSE m[3]
             + (IF alo < m[1] /\ blo < m[2]
                THEN matching_size(a, alo, m[1], b, blo, m[2]) ELSE 0)
             + (IF m[1] + m[3] < ahi /\ m[2] + m[3] < bhi
                THEN matching_size(a, m[1] + m[3], ahi, b, m[2] + m[3], bhi) ELSE 0)
  IN  around(find_longest_match(a, alo, ahi, b, blo, bhi))

\* A ratio 2.0*matches/length is kept as the fraction <<2*matches, length>>;
\* an empty pair of sequences has ratio 1.0.
calculate_ratio(matches, length) ==
  IF length > 0 THEN <<2 * matches, length>> ELSE <<1, 1>>

ratio(a, b) ==
  calculate_ratio(matching_size(a, 1, Len(a) + 1, b, 1, Len(b) + 1), Len(a) + Len(b))

Count(s, c) == Cardinality({i \in 1..Len(s) : s[i] = c})

RECURSIVE common_count(_, _, _)
\* the size of the multiset intersection of a and b over the characters S
common_count(a, b, S) ==
  LET smaller(x, y) == IF x < y THEN x ELSE y
      with(c) == smaller(Count(a, c), Count(b, c)) + common_count(a, b, S \ {c})
  IN  IF S = {} THEN 0 ELSE with(CHOOSE x \in S : TRUE)

\* upper bound on ratio() from the multisets of characters
quick_ratio(a, b) ==
  calculate_ratio(common_count(a, b, SeqToSet(a) \cap SeqToSet(b)), Len(a) + Len(b))

\* upper bound on ratio() from the lengths alone
real_quick_ratio(a, b) ==
  calculate_ratio(IF Len(a) < Len(b) THEN Len(a) ELSE Len(b), Len(a) + Len(b))

\* the cutoff 0.90 of match_from_candidates, as the fraction 9/10
CUTOFF_NUM == 9
CUTOFF_DEN == 10

frac_ge(r, num, den)  == r[1] * den >= num * r[2]
frac_less(r, q)       == r[1] * q[2] < q[1] * r[2]

\* get_close_matches(word, possibilities, n=1, cutoff): the candidates whose
\* ratio reaches the cutoff num/den, reduced to the largest (score, x) pair.
\* Scored candidates are <<x, ratio>> pairs.
get_close_matches(word, possibilities, num, den) ==
  LET larger(p, q) == \/ frac_less(q[2], p[2])
                      \/ ~frac_less(p[2], q[2]) /\ str_less(q[1], p[1])
      nlargest(scored) ==
        IF scored = {} THEN <<>>
        ELSE <<(CHOOSE p \in scored : \A q \in scored : p = q \/ larger(p, q))[1]>>
  IN  nlargest({<<x, ratio(x, word)>> :
                  x \in {y \in SeqToSet(possibilities) :
                           /\ frac_ge(real_quick_ratio(y, word), num, den)
                           /\ frac_ge(quick_ratio(y, word), num, den)
                           /\ frac_ge(ratio(y, word), num, den)}})

\* Faulty variant of match_from_candidates: the cutoff argument is left out, so
\* get_close_matches applies its default of 0.6.
match_from_candidates_default_cutoff(token, candidates) ==
  LET first_of(hits) == IF hits # <<>> THEN hits[1] ELSE None
  IN  first_of(get_close_matches(token, candidates, 6, 10))

match_from_candidates(token, candidates) ==
  LET first_of(hits) == IF hits # <<>> THEN hits[1] ELSE None
  IN  first_of(get_close_matches(token, candidates, CUTOFF_NUM, CUTOFF_DEN))


\* ---------- Derived reference mappings (aliases_helper.py) ----------

\* the assignments of {member: owner for owner, members in table.items()
\* for member in members}, in the order the comprehension makes them
ownership_items(table) ==
  Concat([i \in 1..Len(table) |->
            [j \in 1..Len(table[i][2]) |-> <<table[i][2][j], table[i][1]>>]], 1)

invert_ownership(table) == dict_from(ownership_items(table))

PROVINCE_TO_REGION == invert_ownership(REGION_TO_PROVINCES)
REGION_TO_MACRO    == invert_ownership(MACRO_TO_REGIONS)

\* ---------- Build alias map ----------

ALL_REGIONS   == dict_keys(REGION_TO_PROVINCES)
ALL_PROVINCES ==
  sorted(UNION {SeqToSet(REGION_TO_PROVINCES[i][2]) : i \in 1..Len(REGION_TO_PROVINCES)})
MACROS        == sorted(SeqToSet(dict_keys(MACRO_TO_REGIONS)))

PROVINCIA_DI == <<112,114,111,118,105,110,99,105,97,32,100,105,32>>  \* 'provincia di '
PROV_DI      == <<112,114,111,118,32,100,105,32>>  \* 'prov di '
CITTA_METROPOLITANA_DI ==
  <<99,105,116,116,97,32,109,101,116,114,111,112,111,108,105,116,97,110,97,32,100,105,32>>  \* 'citta metropolitana di '

auto_variants_for_province(name) ==
  LET b == base_normalize(name)
  IN  {b, PROVINCIA_DI \o b, PROV_DI \o b}
        \cup (IF name \in METRO_CITIES THEN {CITTA_METROPOLITANA_DI \o b} ELSE {})

\* the assignments of  for n in names: aliases[base_normalize(n)] = n
self_keys(names) == [i \in 1..Len(names) |-> <<base_normalize(names[i]), names[i]>>]

\* the assignments of  for a in variants: aliases[base_normalize(a)] = canonical
\* (a set is iterated in some order: all its keys take the one canonical, so
\* every order leaves the same entries; the sorted one is taken)
variant_keys(variants, canonical) ==
  LET vs == sorted(variants)
  IN  [i \in 1..Len(vs) |-> <<base_normalize(vs[i]), canonical>>]

\* the assignments of  for canonical, variants in groups.items(): for a in variants
manual_keys(groups) ==
  Concat([i \in 1..Len(groups) |->
            [j \in 1..Len(groups[i][2]) |->
               <<base_normalize(groups[i][2][j]), groups[i][1]>>]], 1)

\* Faulty variant of build_alias_map: the manual variants are stored as written,
\* without base_normalize.
build_alias_map_raw_manual_keys ==
  dict_from(
    self_keys(ALL_REGIONS) \o self_keys(ALL_PROVINCES) \o self_keys(MACROS)
    \o Concat([i \in 1..Len(ALL_PROVINCES) |->
                 variant_keys(auto_variants_for_province(ALL_PROVINCES[i]),
                              ALL_PROVINCES[i])], 1)
    \o Concat([i \in 1..Len(CANONICAL_TO_ALIASES) |->
                 [j \in 1..Len(CANONICAL_TO_ALIASES[i][2]) |->
                    <<CANONICAL_TO_ALIASES[i][2][j], CANONICAL_TO_ALIASES[i][1]>>]], 1))

\* Faulty variant of build_alias_map: the canonical exacts of the regions and of
\* the macro-areas are left out.
build_alias_map_without_region_and_macro_keys ==
  dict_from(
    self_keys(ALL_PROVINCES)
    \o Concat([i \in 1..Len(ALL_PROVINCES) |->
                 variant_keys(auto_variants_for_province(ALL_PROVINCES[i]),
                              ALL_PROVINCES[i])], 1)
    \o manual_keys(CANONICAL_TO_ALIASES))

build_alias_map ==
  dict_from(
    \* Canonical exacts
    self_keys(ALL_REGIONS) \o self_keys(ALL_PROVINCES) \o self_keys(MACROS)
    \* Auto-variants for provinces
    \o Concat([i \in 1..Len(ALL_PROVINCES) |->
                 variant_keys(auto_variants_for_province(ALL_PROVINCES[i]),
                              ALL_PROVINCES[i])], 1)
    \* Manual groups
    \o manual_keys(CANONICAL_TO_ALIASES))

ALIASES == build_alias_map

\* {base_normalize(k): k for k in names}
norm_lookup(names) == dict_from(self_keys(names))

NORM_PROV  == norm_lookup(dict_keys(PROVINCE_TO_REGION))
NORM_REG   == norm_lookup(REGIONS)
NORM_MAC   == norm_lookup(MACROS)
NORM_ALIAS == ALIASES

\* ---------- Core standardizer ----------

\* Python's  sub in s  on str
contains(s, sub) ==
  \E i \in 1..(Len(s) - Len(sub) + 1) : SubSeq(s, i, i + Len(sub) - 1) = sub

unknown_record ==
  [level |-> "unknown", province_std |-> None, region_std |-> None, macro_std |-> None]

province_record(p) ==
  LET in_region(r) ==
        [level |-> "province", province_std |-> p, region_std |-> r,
         macro_std |-> dict_get(REGION_TO_MACRO, r)]
  IN  in_region(dict_get(PROVINCE_TO_REGION, p))

\* Faulty variant of region_record: the name is also put in province_std.
region_record_keeps_province(r) ==
  [level |-> "region", province_std |-> r, region_std |-> r,
   macro_std |-> dict_get(REGION_TO_MACRO, r)]

region_record(r) ==
  [level |-> "region", province_std |-> None, region_std |-> r,
   macro_std |-> dict_get(REGION_TO_MACRO, r)]

macro_record(m) ==
  [level |-> "macro", province_std |-> None, region_std |-> None, macro_std |-> m]

\* Faulty variant of aosta_record: the macro-area literal is the wrong one.
aosta_record_nord_est ==
  [level |-> "region", province_std |-> None, region_std |-> VALLE_D_AOSTA,
   macro_std |-> <<78,111,114,100,45,101,115,116>>]  \* 'Nord-est'

aosta_record ==
  [level |-> "region", province_std |-> None, region_std |-> VALLE_D_AOSTA,
   macro_std |-> NORD_OVEST]

\* The call's outcome: the normalised token, the dict returned and the source
\* line of the return statement executed.
Outcome(t, line, rec) == [tok |-> t, ret |-> line, result |-> rec]

\* 3) fallback close-match and 4) last-resort heuristic
close_match(t) ==
  LET macro_tier(mm) ==
        IF mm # None THEN Outcome(t, 136, macro_record(dict_get(NORM_MAC, mm)))
        ELSE IF contains(t, AOSTA) THEN Outcome(t, 140, aosta_record)
        ELSE Outcome(t, 142, unknown_record)
      region_tier(mr) ==
        IF mr # None THEN Outcome(t, 133, region_record(dict_get(NORM_REG, mr)))
        ELSE macro_tier(match_from_candidates(t, dict_keys(NORM_MAC)))
      province_tier(mp) ==
        IF mp # None THEN Outcome(t, 129, province_record(dict_get(NORM_PROV, mp)))
        ELSE region_tier(match_from_candidates(t, dict_keys(NORM_REG)))
  IN  province_tier(match_from_candidates(t, dict_keys(NORM_PROV)))

\* 2) direct exact on normalized and what follows it
direct_exact(t) ==
  IF dict_has(NORM_PROV, t) THEN Outcome(t, 118, province_record(dict_get(NORM_PROV, t)))
  ELSE IF dict_has(NORM_REG, t) THEN Outcome(t, 121, region_record(dict_get(NORM_REG, t)))
  ELSE IF dict_has(NORM_MAC, t) THEN Outcome(t, 123, macro_record(dict_get(NORM_MAC, t)))
  ELSE close_match(t)

\* Faulty variant of standardize_territory: the Aosta heuristic is tried first.
standardize_territory_aosta_first(r) ==
  LET alias_pass(t, canonical) ==
        IF dict_has(PROVINCE_TO_REGION, canonical)
        THEN Outcome(t, 108, province_record(canonical))
        ELSE IF canonical \in SeqToSet(REGIONS)
        THEN Outcome(t, 111, region_record(canonical))
        ELSE IF canonical \in SeqToSet(MACROS)
        THEN Outcome(t, 113, macro_record(canonical))
        ELSE direct_exact(t)
      resolve(t) ==
        IF contains(t, AOSTA) THEN Outcome(t, 140, aosta_record)
        ELSE IF dict_has(NORM_ALIAS, t) THEN alias_pass(t, dict_get(NORM_ALIAS, t))
        ELSE direct_exact(t)
  IN  IF r = None THEN Outcome(None, 99, unknown_record)
      ELSE resolve(base_normalize(r))

standardize_territory(r) ==
  LET alias_pass(t, canonical) ==
        IF dict_has(PROVINCE_TO_REGION, canonical)
        THEN Outcome(t, 108, province_record(canonical))
        ELSE IF canonical \in SeqToSet(REGIONS)
        THEN Outcome(t, 111, region_record(canonical))
        ELSE IF canonical \in SeqToSet(MACROS)
        THEN Outcome(t, 113, macro_record(canonical))
        ELSE direct_exact(t)
      resolve(t) ==
        \* 1) alias pass
        IF dict_has(NORM_ALIAS, t) THEN alias_pass(t, dict_get(NORM_ALIAS, t))
        ELSE direct_exact(t)
  IN  IF r = None THEN Outcome(None, 99, unknown_record)
      ELSE resolve(base_normalize(r))


\* ---------- Labels given to standardize_territory ----------

MaxPrefixes == 2   \* legal-entity prefixes stacked in front of a province name
MaxDrop     == 2   \* a typo drops one of the first MaxDrop characters of a name
MaxExtra    == 3   \* members tried as a second listing in the reference tables

EMPTY == <<>>  \* ''
XYZZY_NONEXISTENT == <<88,121,122,122,121,32,78,111,110,101,120,105,115,116,101,110,116>>  \* 'Xyzzy Nonexistent'
VALLE_DAOSTA == <<86,97,108,108,101,32,100,65,111,115,116,97>>  \* 'Valle dAosta'
PROVINCIA_DI_AOSTA == <<112,114,111,118,105,110,99,105,97,32,100,105,32,97,111,115,116,97>>  \* 'provincia di aosta'
BOLGNA == <<66,111,108,103,110,97>>  \* 'Bolgna'

SAMPLES ==
  {EMPTY, XYZZY_NONEXISTENT, VALLE_DAOSTA, PROVINCIA_DI_AOSTA, BOLGNA,
    <<32>>,  \* ' '
    <<9,32>>,  \* '\t '
    <<82,101,103,103,105,111,32,69,109,105,108,105,97>>,  \* 'Reggio Emilia'
    <<112,114,111,118,105,110,99,105,97,32,100,105,32,78,97,112,111,108,105>>,  \* 'provincia di Napoli'
    <<66,65,84>>,  \* 'BAT'
    <<84,114,101,110,116,105,110,111,32,65,108,116,111,32,65,100,105,103,101>>,  \* 'Trentino Alto Adige'
    <<118,97,108,108,101,32,100,39,97,111,115,116,97>>,  \* "valle d'aosta"
    <<65,79,83,84,65>>,  \* 'AOSTA'
    <<86,97,108,32,100,39,65,111,115,116,97>>,  \* "Val d'Aosta"
    <<39,112,114,111,118,105,110,99,105,97,32,100,105,32,114,111,109,97>>,  \* "'provincia di roma"
    <<80,82,79,86,32,68,73,32,32,76,101,99,99,101>>,  \* 'PROV DI  Lecce'
    <<67,105,116,116,224,32,77,101,116,114,111,112,111,108,105,116,97,110,97,32,100,105,32,77,105,108,97,110,111>>,  \* 'Citt\xe0 Metropolitana di Milano'
    <<70,111,114,108,105,39>>,  \* "Forli'"
    <<69,109,105,108,105,97,32,82,111,109,97,103,110,97>>,  \* 'Emilia Romagna'
    <<110,111,114,100,32,101,115,116>>,  \* 'nord est'
    <<83,117,100,32,83,97,114,100,101,103,110,97,32>>  \* 'Sud Sardegna '
  }

Provinces == SeqToSet(ALL_PROVINCES)
Canonical == Provinces \cup SeqToSet(REGIONS) \cup SeqToSet(MACROS)

\* the <<canonical, variant>> entries of the manual alias table
ManualEntries ==
  UNION {{<<CANONICAL_TO_ALIASES[i][1], CANONICAL_TO_ALIASES[i][2][j]>> :
            j \in 1..Len(CANONICAL_TO_ALIASES[i][2])} :
         i \in 1..Len(CANONICAL_TO_ALIASES)}

RECURSIVE WithPrefixes(_, _)
\* the labels of S with up to n legal-entity prefixes in front
WithPrefixes(S, n) ==
  IF n = 0 THEN S
  ELSE S \cup WithPrefixes({p \o s : p \in {PROVINCIA_DI, PROV_DI, CITTA_METROPOLITANA_DI},
                                      s \in S}, n - 1)

\* s without its j-th character
Drop(s, j) == SubSeq(s, 1, j - 1) \o SubSeq(s, j + 1, Len(s))

Typos == {Drop(s, j) : s \in Canonical, j \in 1..MaxDrop}

Labels ==
  Canonical \cup {e[2] : e \in ManualEntries} \cup SAMPLES
    \cup WithPrefixes(Provinces, MaxPrefixes) \cup Typos

Inputs == {None} \cup Labels

\* ---------- Reference tables an author may have written ----------

\* table with member listed once more, under the owner of item i
list_also(table, i, member) ==
  [table EXCEPT ![i] = <<table[i][1], Append(table[i][2], member)>>]

\* the tables as they stand in aliases_helper.py
NoRelisting == [table |-> "none", item |-> 0, member |-> None]

\* The tables of aliases_helper.py, or those tables with one member listed once
\* more: a province under some region, or a region under some macro-area.
Relistings ==
  {NoRelisting}
    \cup {[table |-> "REGION_TO_PROVINCES", item |-> i, member |-> ALL_PROVINCES[k]] :
            i \in 1..Len(REGION_TO_PROVINCES), k \in 1..MaxExtra}
    \cup {[table |-> "MACRO_TO_REGIONS", item |-> i, member |-> REGIONS[k]] :
            i \in 1..Len(MACRO_TO_REGIONS), k \in 1..MaxExtra}

\* the two authored tables under the relisting rl
authored(rl) ==
  [r2p |-> IF rl.table = "REGION_TO_PROVINCES"
           THEN list_also(REGION_TO_PROVINCES, rl.item, rl.member)
           ELSE REGION_TO_PROVINCES,
   m2r |-> IF rl.table = "MACRO_TO_REGIONS"
           THEN list_also(MACRO_TO_REGIONS, rl.item, rl.member)
           ELSE MACRO_TO_REGIONS]

\* the owners under which table lists member
owners(table, member) ==
  {table[i][1] : i \in {h \in 1..Len(table) : member \in SeqToSet(table[h][2])}}

members(table) == UNION {SeqToSet(table[i][2]) : i \in 1..Len(table)}

\* no member is listed under two owners
single_owner(table) == \A m \in members(table) : Cardinality(owners(table, m)) = 1

\* ---------- The program as a state machine ----------

Idle ==
  /\ pc = "idle"
  /\ raw = None
  /\ tok = None
  /\ result = None
  /\ ret = 0

\* State once aliases_helper and the standardizer have been imported: the tables
\* are those of the repository, and the derived dicts are PROVINCE_TO_REGION and
\* REGION_TO_MACRO.
Init ==
  /\ relisted = NoRelisting
  /\ owner_kept = None
  /\ loaded = TRUE
  /\ Idle

\* One call standardize_territory(r), from entry to its return statement.
Standardize(r) ==
  LET returns(o) ==
        /\ raw' = r
        /\ tok' = o.tok
        /\ result' = o.result
        /\ ret' = o.ret
  IN  /\ loaded
      /\ pc = "idle"
      /\ returns(standardize_territory(r))
      /\ pc' = "returned"
      /\ UNCHANGED <<relisted, owner_kept, loaded>>

\* The caller takes the returned dict; the call's frame is gone.
Release ==
  /\ pc = "returned"
  /\ pc' = "idle"
  /\ raw' = None
  /\ tok' = None
  /\ result' = None
  /\ ret' = 0
  /\ UNCHANGED <<relisted, owner_kept, loaded>>

Next ==
  \/ \E r \in Inputs : Standardize(r)
  \/ Release

Spec == Init /\ [][Next]_vars

\* State before aliases_helper is imported, for any authored tables.
InitRef ==
  /\ relisted \in Relistings
  /\ owner_kept = None
  /\ loaded = FALSE
  /\ Idle

\* Import of aliases_helper: the two derived dicts are built by their
\* comprehensions and nothing else runs.  Of the dicts built, the state keeps
\* the entry of the relisted member.
ImportAliasesHelper ==
  /\ ~loaded
  /\ owner_kept' =
       IF relisted.table = "REGION_TO_PROVINCES"
       THEN dict_get(invert_ownership(authored(relisted).r2p), relisted.member)
       ELSE IF relisted.table = "MACRO_TO_REGIONS"
       THEN dict_get(invert_ownership(authored(relisted).m2r), relisted.member)
       ELSE None
  /\ loaded' = TRUE
  /\ UNCHANGED <<relisted, pc, raw, tok, result, ret>>

NextRef == ImportAliasesHelper

SpecRef == InitRef /\ [][NextRef]_vars

\* ---------- Properties ----------

Returned == pc = "returned"

AOSTA_PROVINCE == <<65,111,115,116,97>>  \* 'Aosta'
B_A_T == <<98,46,97,46,116,46>>  \* 'b.a.t.'

the_owner(table, member) == CHOOSE o \in owners(table, member) : TRUE

\* The record the authored tables prescribe for the canonical name n.
reference_record(n) ==
  IF n \in Provinces
  THEN [level |-> "province", province_std |-> n,
        region_std |-> the_owner(REGION_TO_PROVINCES, n),
        macro_std |-> the_owner(MACRO_TO_REGIONS, the_owner(REGION_TO_PROVINCES, n))]
  ELSE IF n \in SeqToSet(REGIONS)
  THEN [level |-> "region", province_std |-> None, region_std |-> n,
        macro_std |-> the_owner(MACRO_TO_REGIONS, n)]
  ELSE [level |-> "macro", province_std |-> None, region_std |-> None, macro_std |-> n]

\* C1 (self-resolution): a call on a canonical province, region or macro-area
\* name returns the level of the name's own universe, the name in the field of
\* that level, and the other hierarchy fields as the reference tables give them.
SelfResolution ==
  Returned /\ raw \in Canonical => result = reference_record(raw)

SelfResolutionWitness ==
  Returned /\ raw = AOSTA_PROVINCE /\ result.level = "province" /\ ret = 108

FieldPresence ==
  Returned =>
    /\ result.level \in {"province", "region", "macro", "unknown"}
    /\ (result.province_std # None) <=> (result.level = "province")
    /\ (result.region_std # None) <=> (result.level \in {"province", "region"})
    /\ (result.macro_std # None) <=> (result.level \in {"province", "region", "macro"})

FieldPresenceWitness ==
  Returned /\ raw = None /\ result.level = "unknown" /\ ret = 99

\* C4 (idempotent normalization): normalising the normalised token of any label
\* gives the token back.
NormalizeIdempotent ==
  Returned /\ raw # None => base_normalize(tok) = tok

\* every manual variant, normalised, is a key of the alias index under its own
\* canonical name
ManualKeysKeepCanonical ==
  \A e \in ManualEntries :
    /\ dict_has(ALIASES, base_normalize(e[2]))
    /\ dict_get(ALIASES, base_normalize(e[2])) = e[1]

\* C5 (alias coverage): a call on a manual variant returns the very record a
\* call on its canonical name returns, and no manual key is held by another
\* canonical name.
AliasCoverage ==
  /\ ManualKeysKeepCanonical
  /\ Returned =>
       \A e \in ManualEntries :
         raw = e[2] => result = standardize_territory(e[1]).result

AliasCoverageWitness ==
  Returned /\ raw = B_A_T /\ result.level = "province" /\ ret = 108

NormalizedProvinces == {base_normalize(p) : p \in Provinces}

\* C6 (monotonic priority): when the token is the normalised form of a canonical
\* province name, the result is that province, never a region or a macro-area.
MonotonicPriority ==
  Returned /\ raw # None /\ tok \in NormalizedProvinces =>
    /\ result.level = "province"
    /\ result.province_std \in Provinces
    /\ base_normalize(result.province_std) = tok

MonotonicPriorityWitness ==
  Returned /\ raw = PROVINCIA_DI_AOSTA /\ tok = AOSTA /\ result.level = "province"

\* the candidates of cands whose ratio with t is at least 0.90
close_at_090(t, cands) == get_close_matches(t, cands, 9, 10)

\* t has no alias, no fuzzy candidate at ratio >= 0.90 and no 'aosta' in it
no_resolution(t) ==
  /\ ~contains(t, AOSTA)
  /\ ~dict_has(ALIASES, t)
  /\ close_at_090(t, dict_keys(NORM_PROV)) = <<>>
  /\ close_at_090(t, dict_keys(NORM_REG)) = <<>>
  /\ close_at_090(t, dict_keys(NORM_MAC)) = <<>>

\* C7 (unknown boundary): None, an empty or whitespace-only label, and a label
\* with no alias, no fuzzy candidate and no 'aosta' all return the unknown
\* record, through a return statement.
UnknownBoundary ==
  Returned =>
    /\ raw = None => result = unknown_record /\ ret = 99
    /\ raw # None /\ (tok = <<>> \/ raw = XYZZY_NONEXISTENT \/ no_resolution(tok)) =>
         result = unknown_record /\ ret = 142

UnknownBoundaryWitness ==
  Returned /\ raw = XYZZY_NONEXISTENT /\ result.level = "unknown" /\ ret = 142

\* C8 (reference-data inconsistency): the import completes only for tables in
\* which no province is listed under two regions and no region under two
\* macro-areas.
FailFastOnInconsistentTables ==
  loaded => single_owner(authored(relisted).r2p) /\ single_owner(authored(relisted).m2r)

\* the first rule, in the documented order, whose condition the token t meets
first_rule(t) ==
  IF dict_has(ALIASES, t) THEN "alias"
  ELSE IF dict_has(NORM_PROV, t) \/ dict_has(NORM_REG, t) \/ dict_has(NORM_MAC, t)
  THEN "exact"
  ELSE IF close_at_090(t, dict_keys(NORM_PROV)) # <<>> THEN "fuzzy province"
  ELSE IF close_at_090(t, dict_keys(NORM_REG)) # <<>> THEN "fuzzy region"
  ELSE IF close_at_090(t, dict_keys(NORM_MAC)) # <<>> THEN "fuzzy macro"
  ELSE IF contains(t, AOSTA) THEN "aosta"
  ELSE "unknown"

\* what the rule decides for the token t, checked on the returned record rec
\* and on the return statement at line
decided_by(rule, t, rec, line) ==
  CASE rule = "alias" ->
         /\ line \in {108, 111, 113}
         /\ dict_get(ALIASES, t) \in {rec.province_std, rec.region_std, rec.macro_std}
         /\ rec = reference_record(dict_get(ALIASES, t))
    [] rule = "exact" -> line \in {118, 121, 123}
    [] rule = "fuzzy province" ->
         /\ line = 129
         /\ rec.level = "province"
         /\ <<base_normalize(rec.province_std)>> = close_at_090(t, dict_keys(NORM_PROV))
    [] rule = "fuzzy region" ->
         /\ line = 133
         /\ rec.level = "region"
         /\ <<base_normalize(rec.region_std)>> = close_at_090(t, dict_keys(NORM_REG))
    [] rule = "fuzzy macro" ->
         /\ line = 136
         /\ rec.level = "macro"
         /\ <<base_normalize(rec.macro_std)>> = close_at_090(t, dict_keys(NORM_MAC))
    [] rule = "aosta" ->
         /\ line = 140
         /\ rec.level = "region"
         /\ rec.region_std = VALLE_D_AOSTA
    [] rule = "unknown" -> line = 142 /\ rec = unknown_record

\* C9 (strict rule order): the result is decided by the first rule, in the
\* order alias, canonical exact, fuzzy province, fuzzy region, fuzzy macro,
\* Aosta heuristic, unknown, that the token meets; 'aosta' and
\* 'provincia di aosta' resolve to the province Aosta, not to the region.
StrictRuleOrder ==
  Returned /\ raw # None =>
    /\ decided_by(first_rule(tok), tok, result, ret)
    /\ tok = AOSTA => result.level = "province" /\ result.province_std = AOSTA_PROVINCE

StrictRuleOrderWitness ==
  Returned /\ raw = VALLE_DAOSTA /\ ret = 140 /\ result.region_std = VALLE_D_AOSTA

\* every key of NORM_PROV, NORM_REG and NORM_MAC is a key of ALIASES
CanonicalKeysAreAliasKeys ==
  \A k \in SeqToSet(dict_keys(NORM_PROV)) \cup SeqToSet(dict_keys(NORM_REG))
             \cup SeqToSet(dict_keys(NORM_MAC)) :
    dict_has(ALIASES, k)

\* every value of ALIASES is a province, a region or a macro-area
AliasValuesAreCanonical ==
  \A i \in 1..Len(ALIASES) :
    \/ dict_has(PROVINCE_TO_REGION, ALIASES[i][2])
    \/ ALIASES[i][2] \in SeqToSet(REGIONS)
    \/ ALIASES[i][2] \in SeqToSet(MACROS)

\* C10 (the alias index subsumes the canonical-exact pass): the canonical keys
\* are alias keys, the alias values are canonical names, a token that is an
\* index key is returned by the alias pass, and no result is ever returned by
\* the direct-exact pass.
AliasIndexSubsumesExact ==
  /\ CanonicalKeysAreAliasKeys
  /\ AliasValuesAreCanonical
  /\ Returned =>
       /\ ret \notin {118, 121, 123}
       /\ raw # None /\ dict_has(ALIASES, tok) => ret \in {108, 111, 113}

AliasIndexSubsumesExactWitness ==
  Returned /\ raw \in SeqToSet(REGIONS) /\ dict_has(NORM_REG, tok) /\ ret = 111
====
